---- MODULE Spec2Model ----
(***************************************************************************)
(* react-query-factory: createQueriesFromService compiles a service object *)
(* into a table of {useQuery, useMutation, queryKey} triads; the hooks     *)
(* build the options object handed to the external runtime (TanStack       *)
(* useQuery / useMutation), which later runs the execution function.       *)
(***************************************************************************)
EXTENDS Integers, Sequences, FiniteSets, TLC

VARIABLES pc, service, queryKeyPrefix, queries, keyCalls, observers,
          mutations, invocations, adapters

vars == <<pc, service, queryKeyPrefix, queries, keyCalls, observers,
          mutations, invocations, adapters>>

(***************************************************************************)
(* Bounds of the model.                                                    *)
(***************************************************************************)
MaxCalls == 2
MaxInvocations == 2
MaxAdapters == 2

(***************************************************************************)
(* JavaScript values.  Every value is a record tagged by t, so that any    *)
(* two values can be compared structurally.                                *)
(***************************************************************************)
Undef == [t |-> "undefined"]
Null == [t |-> "null"]
Str(s) == [t |-> "string", s |-> s]
Num(n) == [t |-> "number", n |-> n]
Bool(b) == [t |-> "boolean", b |-> b]
Arr(items) == [t |-> "array", items |-> items]
Obj(fields) == [t |-> "object", fields |-> fields]

NoFields == [k \in {} |-> Undef]

\* A service function: declared parameter count in length.
ServiceFn(id, length) == [t |-> "function", f |-> "service", id |-> id, length |-> length]

\* An error value.
Err(message) == [t |-> "error", message |-> message]

\* How a call of an asynchronous function ends: its promise resolves with a
\* value or rejects with an error, or the call throws before returning one.
Resolved(value) == [kind |-> "resolved", value |-> value]
Rejected(error) == [kind |-> "rejected", value |-> error]
Threw(error) == [kind |-> "threw", value |-> error]

\* A function the caller wrote and put into an options bag.
CallerFn == [t |-> "function", f |-> "caller"]

\* typeof v === 'function'
IsFunction(v) == v.t = "function"

\* JavaScript truthiness, as used by the || operator.
Truthy(v) ==
  CASE v.t = "undefined" -> FALSE
    [] v.t = "null" -> FALSE
    [] v.t = "boolean" -> v.b
    [] v.t = "number" -> v.n # 0
    [] v.t = "string" -> v.s # ""
    [] OTHER -> TRUE

\* The i-th actual argument of a call; a missing argument is undefined.
Arg(args, i) == IF i <= Len(args) THEN args[i] ELSE Undef

\* obj?.name
OptionalGet(obj, name) ==
  IF obj.t = "object" /\ name \in DOMAIN obj.fields THEN obj.fields[name] ELSE Undef

\* Fields { ...target, ...source }: spreading undefined or null adds nothing.
Spread(target, source) ==
  IF source.t = "object"
    THEN [k \in DOMAIN target \cup DOMAIN source.fields |->
            IF k \in DOMAIN source.fields THEN source.fields[k] ELSE target[k]]
    ELSE target

\* Fields { ...target, name: value }
SetField(target, name, value) ==
  [k \in DOMAIN target \cup {name} |-> IF k = name THEN value ELSE target[k]]

(***************************************************************************)
(* create-use-query.ts                                                     *)
(***************************************************************************)

\* The default key function built by createQueriesFromService:
\* (params) => [queryKeyPrefix, key, params]
DefaultKeyFn(prefix, key) ==
  [t |-> "function", f |-> "defaultKey", prefix |-> prefix, key |-> key]

\* A key function that leaves an undefined parameter out of the key.
CallKeyFn_OmitsUndefined(fn, params) ==
  IF params = Undef
    THEN Arr(<<Str(fn.prefix), Str(fn.key)>>)
    ELSE Arr(<<Str(fn.prefix), Str(fn.key), params>>)

\* A key function that leaves the operation name out of the key.
CallKeyFn_OmitsName(fn, params) == Arr(<<Str(fn.prefix), params>>)

\* Key functions a caller gives to createUseQuery:
\* (param) => ['custom', param] and (param) => param
CustomKeyFn == [t |-> "function", f |-> "customKey"]
IdentityKeyFn == [t |-> "function", f |-> "identityKey"]

\* Calling a key function with params.
CallKeyFn(fn, params) ==
  CASE fn.f = "defaultKey" -> Arr(<<Str(fn.prefix), Str(fn.key), params>>)
    [] fn.f = "customKey" -> Arr(<<Str("custom"), params>>)
    [] fn.f = "identityKey" -> params

\* A closure that calls serviceFn() and drops params.
QueryFnClosure_DropsParams(serviceFn, params) ==
  [t |-> "function", f |-> "queryFn", serviceFn |-> serviceFn, params |-> Undef]

\* A closure that catches the failure of serviceFn and resolves with undefined.
QueryFnResult_Swallows(outcome) ==
  IF outcome.kind = "resolved" THEN outcome ELSE Resolved(Undef)

\* How a run of the closure () => serviceFn(params) ends, given how the call
\* of serviceFn ends: the closure returns the call's value and has no catch.
QueryFnResult(outcome) == outcome

\* The closure () => serviceFn(params) given to the runtime as queryFn.
QueryFnClosure(serviceFn, params) ==
  [t |-> "function", f |-> "queryFn", serviceFn |-> serviceFn, params |-> params]

\* options?.queryKey || queryKey?.(params) || []: the caller's key first.
ComputedKey_OptionsFirst(queryKey, params, options) ==
  LET fromFn == IF IsFunction(queryKey) THEN CallKeyFn(queryKey, params) ELSE Undef
      fromOptions == OptionalGet(options, "queryKey")
  IN  IF Truthy(fromOptions) THEN fromOptions
      ELSE IF Truthy(fromFn) THEN fromFn
      ELSE Arr(<<>>)

\* queryKey?.(params) || options?.queryKey || []
ComputedKey(queryKey, params, options) ==
  LET fromFn == IF IsFunction(queryKey) THEN CallKeyFn(queryKey, params) ELSE Undef
      fromOptions == OptionalGet(options, "queryKey")
  IN  IF Truthy(fromFn) THEN fromFn
      ELSE IF Truthy(fromOptions) THEN fromOptions
      ELSE Arr(<<>>)

\* getOptions(): options when the operation expects params, else params.
GetOptions(expectsParams, params, options) ==
  IF expectsParams THEN options ELSE params

\* createUseQuery(expectsParams, serviceFn, queryKey): the hook it returns.
createUseQuery(expectsParams, serviceFn, queryKey) ==
  [t |-> "function", f |-> "useQuery", expectsParams |-> expectsParams,
   serviceFn |-> serviceFn, queryKey |-> queryKey]

\* A hook that spreads the options after the key:
\* { queryFn: () => serviceFn(params), queryKey: computedKey, ...getOptions() }
UseQueryHanded_SpreadLast(hook, args) ==
  LET params == Arg(args, 1)
      options == Arg(args, 2)
      computedKey == ComputedKey(hook.queryKey, params, options)
      base == [queryFn |-> QueryFnClosure(hook.serviceFn, params)]
  IN  Obj(Spread(SetField(base, "queryKey", computedKey),
                 GetOptions(hook.expectsParams, params, options)))

\* The hook called with args: the object it passes to the runtime's useQuery.
\* { queryFn: () => serviceFn(params), ...getOptions(), queryKey: computedKey }
UseQueryHanded(hook, args) ==
  LET params == Arg(args, 1)
      options == Arg(args, 2)
      computedKey == ComputedKey(hook.queryKey, params, options)
      base == [queryFn |-> QueryFnClosure(hook.serviceFn, params)]
  IN  Obj(SetField(Spread(base, GetOptions(hook.expectsParams, params, options)),
                   "queryKey", computedKey))

\* createUseMutation(serviceFn): the hook it returns.
createUseMutation(serviceFn) ==
  [t |-> "function", f |-> "useMutation", serviceFn |-> serviceFn]

\* A useMutation hook that attaches a key of its own to the mutation.
UseMutationHanded_AttachesKey(hook, args) ==
  Obj(SetField(Spread([mutationFn |-> hook.serviceFn], Arg(args, 1)),
               "mutationKey", Arr(<<Str(hook.serviceFn.id)>>)))

\* The hook called with args: the object it passes to the runtime's
\* useMutation.  { mutationFn: serviceFn, ...options }
UseMutationHanded(hook, args) ==
  Obj(Spread([mutationFn |-> hook.serviceFn], Arg(args, 1)))

(***************************************************************************)
(* create-queries-from-service.ts                                          *)
(***************************************************************************)

\* The characters of the strings that occur as a service value.
Chars(s) ==
  CASE s = "" -> <<>>
    [] s = "ab" -> <<"a", "b">>

\* Object.keys(v) throws a TypeError for undefined and null.
ObjectKeysThrows(v) == v.t \in {"undefined", "null"}

\* Object.keys(v): own enumerable string keys.
ObjectKeys(v) ==
  CASE v.t = "object" -> DOMAIN v.fields
    [] v.t = "array" -> {ToString(i - 1) : i \in 1..Len(v.items)}
    [] v.t = "string" -> {ToString(i - 1) : i \in 1..Len(Chars(v.s))}
    [] OTHER -> {}

\* v[key] for a key of Object.keys(v).
GetProp(v, key) ==
  CASE v.t = "object" -> v.fields[key]
    [] v.t = "array" ->
         v.items[CHOOSE i \in 1..Len(v.items) : ToString(i - 1) = key]
    [] v.t = "string" ->
         Str(Chars(v.s)[CHOOSE i \in 1..Len(Chars(v.s)) : ToString(i - 1) = key])

\* Arity classification that takes only one declared parameter as one-arity.
ExpectsParams_ExactlyOne(serviceFn) == serviceFn.length = 1

\* const expectsParams = serviceFn.length > 0
ExpectsParams(serviceFn) == serviceFn.length > 0

\* The triad assigned to queries[key] (both branches of the if).
Triad(serviceFn, prefix, key) ==
  IF ExpectsParams(serviceFn)
    THEN [useQuery |-> createUseQuery(TRUE, serviceFn, DefaultKeyFn(prefix, key)),
          useMutation |-> createUseMutation(serviceFn),
          queryKey |-> DefaultKeyFn(prefix, key)]
    ELSE [useQuery |-> createUseQuery(FALSE, serviceFn, DefaultKeyFn(prefix, key)),
          useMutation |-> createUseMutation(serviceFn),
          queryKey |-> DefaultKeyFn(prefix, key)]

\* The keys the forEach loop assigns: those whose value is a function.
FunctionKeys(v) == {k \in ObjectKeys(v) : IsFunction(GetProp(v, k))}

\* createQueriesFromService(service, queryKeyPrefix): whether it threw, and
\* the table it returned.
createQueriesFromService(svc, prefix) ==
  IF ObjectKeysThrows(svc)
    THEN [threw |-> TRUE, table |-> [k \in {} |-> Undef]]
    ELSE [threw |-> FALSE,
          table |-> [k \in FunctionKeys(svc) |-> Triad(GetProp(svc, k), prefix, k)]]

(***************************************************************************)
(* Inputs.                                                                 *)
(***************************************************************************)

\* Well-formed services (plain mappings) and malformed ones.
Services ==
  { Obj([getData |-> ServiceFn("getData", 0),
         postData |-> ServiceFn("postData", 1),
         baseUrl |-> Str("ab")]),
    Obj([search |-> ServiceFn("search", 2), retries |-> Num(3)]),
    Obj(NoFields),
    Null,
    Undef,
    Str("ab"),
    Str(""),
    Num(5),
    Arr(<<ServiceFn("first", 0), Num(7), ServiceFn("third", 1)>>) }

Prefixes == {"testPrefix"}

\* Parameter values of a one-arity operation.
Params == {Undef, Obj([name |-> Str("ab")])}

\* Options bags a caller passes to useQuery.
QueryOptions ==
  { Obj(NoFields),
    Obj([enabled |-> Bool(FALSE)]),
    Obj([queryKey |-> Arr(<<Str("mine")>>)]),
    Obj([queryFn |-> CallerFn]),
    Obj([queryKey |-> Arr(<<Str("mine")>>), queryFn |-> CallerFn,
         enabled |-> Bool(TRUE)]) }

\* Options bags a caller passes to useMutation.
MutationOptions ==
  { Obj(NoFields),
    Obj([retry |-> Num(0)]),
    Obj([mutationFn |-> CallerFn]),
    Obj([mutationKey |-> Arr(<<Str("mine")>>), retry |-> Num(3)]) }

\* Argument lists of the calls a caller makes, by the arity of the operation.
ReadArgs(expectsParams) ==
  IF expectsParams
    THEN {<<p>> : p \in Params} \cup {<<p, o>> : p \in Params, o \in QueryOptions}
    ELSE {<<>>} \cup {<<o>> : o \in QueryOptions}

KeyArgs(expectsParams) ==
  IF expectsParams THEN {<<p>> : p \in Params} ELSE {<<>>}

MutationArgs == {<<>>} \cup {<<o>> : o \in MutationOptions}

\* The ways a call of a service function ends.
Outcomes == {Resolved(Str("data")), Rejected(Err("e1")), Threw(Err("e2"))}

\* The variables given to mutate(): nothing for a zero-arity operation.
Variables(expectsParams) == IF expectsParams THEN Params ELSE {Undef}

(***************************************************************************)
(* The state machine.                                                      *)
(***************************************************************************)

\* The calls made into the compiled triads so far.
CallCount == Cardinality(keyCalls) + Cardinality(observers) + Cardinality(mutations)

Init ==
  /\ pc = "start"
  /\ service \in Services
  /\ queryKeyPrefix \in Prefixes
  /\ queries = [k \in {} |-> Undef]
  /\ keyCalls = {}
  /\ observers = {}
  /\ mutations = {}
  /\ invocations = {}
  /\ adapters = {}

\* createQueriesFromService(service, queryKeyPrefix)
Compile ==
  /\ pc = "start"
  /\ LET out == createQueriesFromService(service, queryKeyPrefix)
     IN  /\ pc' = IF out.threw THEN "threw" ELSE "returned"
         /\ queries' = out.table
  /\ UNCHANGED <<service, queryKeyPrefix, keyCalls, observers, mutations,
                 invocations, adapters>>

\* queries[key].queryKey(...args)
CallQueryKey(key, args) ==
  /\ pc = "returned"
  /\ CallCount < MaxCalls
  /\ keyCalls' = keyCalls \cup
       {[key |-> key, args |-> args,
         result |-> CallKeyFn(queries[key].queryKey, Arg(args, 1))]}
  /\ UNCHANGED <<pc, service, queryKeyPrefix, queries, observers, mutations,
                 invocations, adapters>>

\* queries[key].useQuery(...args): the runtime's useQuery registers an
\* observer for the object handed to it.
CallUseQuery(key, args) ==
  /\ pc = "returned"
  /\ CallCount < MaxCalls
  /\ observers' = observers \cup
       {[key |-> key, args |-> args,
         handed |-> UseQueryHanded(queries[key].useQuery, args)]}
  /\ UNCHANGED <<pc, service, queryKeyPrefix, queries, keyCalls, mutations,
                 invocations, adapters>>

\* queries[key].useMutation(...args): the runtime's useMutation keeps the
\* object handed to it and returns a handle with mutate.
CallUseMutation(key, args) ==
  /\ pc = "returned"
  /\ CallCount < MaxCalls
  /\ mutations' = mutations \cup
       {[key |-> key, args |-> args,
         handed |-> UseMutationHanded(queries[key].useMutation, args)]}
  /\ UNCHANGED <<pc, service, queryKeyPrefix, queries, keyCalls, observers,
                 invocations, adapters>>

\* What calling the function fn with args invokes: the queryFn closure calls
\* serviceFn(params); any other function is invoked itself.
Invoked(fn, args) ==
  IF fn.f = "queryFn"
    THEN [fn |-> fn.serviceFn, args |-> <<fn.params>>]
    ELSE [fn |-> fn, args |-> args]

\* What the runtime gets from its call of fn, given how the function that
\* Invoked names ends: the queryFn closure passes on the end of serviceFn.
Observed(fn, outcome) ==
  IF fn.f = "queryFn" THEN QueryFnResult(outcome) ELSE outcome

\* The runtime runs the queryFn of an observer.
RunQueryFn(o, outcome) ==
  /\ Cardinality(invocations) < MaxInvocations
  /\ invocations' = invocations \cup
       {[via |-> "query", reg |-> o, variables |-> Undef,
         call |-> Invoked(o.handed.fields.queryFn, <<>>),
         outcome |-> outcome,
         observed |-> Observed(o.handed.fields.queryFn, outcome)]}
  /\ UNCHANGED <<pc, service, queryKeyPrefix, queries, keyCalls, observers,
                 mutations, adapters>>

\* mutate(variables) on the handle of a mutation: the runtime calls
\* mutationFn(variables).
Mutate(m, variables, outcome) ==
  /\ Cardinality(invocations) < MaxInvocations
  /\ invocations' = invocations \cup
       {[via |-> "mutation", reg |-> m, variables |-> variables,
         call |-> Invoked(m.handed.fields.mutationFn, <<variables>>),
         outcome |-> outcome,
         observed |-> Observed(m.handed.fields.mutationFn, outcome)]}
  /\ UNCHANGED <<pc, service, queryKeyPrefix, queries, keyCalls, observers,
                 mutations, adapters>>

Next ==
  \/ Compile
  \/ \E key \in DOMAIN queries :
       \E args \in KeyArgs(queries[key].useQuery.expectsParams) :
         CallQueryKey(key, args)
  \/ \E key \in DOMAIN queries :
       \E args \in ReadArgs(queries[key].useQuery.expectsParams) :
         CallUseQuery(key, args)
  \/ \E key \in DOMAIN queries : \E args \in MutationArgs :
       CallUseMutation(key, args)
  \/ \E o \in observers : \E outcome \in Outcomes : RunQueryFn(o, outcome)
  \/ \E m \in mutations :
       \E variables \in Variables(queries[m.key].useQuery.expectsParams) :
         \E outcome \in Outcomes : Mutate(m, variables, outcome)

Spec == Init /\ [][Next]_vars

(***************************************************************************)
(* Read adapters made by calling createUseQuery directly, with or without  *)
(* a key function.                                                         *)
(***************************************************************************)

\* The key functions given to createUseQuery; undefined is none.
KeyFns == {Undef, CustomKeyFn, IdentityKeyFn}

\* The service functions wrapped, with the expectsParams given for each.
AdapterFns ==
  { [expectsParams |-> FALSE, serviceFn |-> ServiceFn("fetchTodos", 0)],
    [expectsParams |-> TRUE, serviceFn |-> ServiceFn("fetchTodoById", 1)] }

InitAdapter ==
  /\ pc = "adapters"
  /\ service = Obj(NoFields)
  /\ queryKeyPrefix \in Prefixes
  /\ queries = [k \in {} |-> Undef]
  /\ keyCalls = {}
  /\ observers = {}
  /\ mutations = {}
  /\ invocations = {}
  /\ adapters = {}

\* createUseQuery({expectsParams, serviceFn, queryKey})
CreateAdapter(expectsParams, serviceFn, queryKey) ==
  /\ Cardinality(adapters) < MaxAdapters
  /\ adapters' = adapters \cup {createUseQuery(expectsParams, serviceFn, queryKey)}
  /\ UNCHANGED <<pc, service, queryKeyPrefix, queries, keyCalls, observers,
                 mutations, invocations>>

\* A call of the hook createUseQuery returned: the runtime's useQuery
\* registers an observer for the object handed to it.
CallAdapter(hook, args) ==
  /\ CallCount < MaxCalls
  /\ observers' = observers \cup
       {[key |-> hook.serviceFn.id, hook |-> hook, args |-> args,
         handed |-> UseQueryHanded(hook, args)]}
  /\ UNCHANGED <<pc, service, queryKeyPrefix, queries, keyCalls, mutations,
                 invocations, adapters>>

NextAdapter ==
  \/ \E a \in AdapterFns : \E queryKey \in KeyFns :
       CreateAdapter(a.expectsParams, a.serviceFn, queryKey)
  \/ \E hook \in adapters : \E args \in ReadArgs(hook.expectsParams) :
       CallAdapter(hook, args)

SpecAdapter == InitAdapter /\ [][NextAdapter]_vars

(***************************************************************************)
(* Properties.                                                             *)
(***************************************************************************)

\* A plain mapping: an object (arrays, strings, numbers and null are not).
IsPlainMapping(v) == v.t = "object"

\* The service function wrapped by the triad of key.
WrappedFn(key) == GetProp(service, key)

\* The operation of key declares at least one parameter.
OneArity(key) == WrappedFn(key).length >= 1

\* The key [namespace, name, p].
Triple(key, p) == Arr(<<Str(queryKeyPrefix), Str(key), p>>)

\* The fields of the caller's bag, other than the reserved ones, are in the
\* object handed to the runtime with the same values.
OthersForwarded(bag, handed, reserved) ==
  bag.t = "object" =>
    \A name \in DOMAIN bag.fields \ reserved :
      name \in DOMAIN handed.fields /\ handed.fields[name] = bag.fields[name]

\* C1: queryKey(p) of a compiled operation returns exactly
\* [namespace, name, p]; called without argument, the third element is
\* undefined.
C1_QueryKeyIsTriple ==
  \A c \in keyCalls :
    c.result = Triple(c.key, IF c.args = <<>> THEN Undef ELSE c.args[1])

C1_Witness ==
  \E c, d \in keyCalls :
    /\ ~OneArity(c.key) /\ c.args = <<>> /\ c.result.items[3] = Undef
    /\ OneArity(d.key) /\ d.args # <<>> /\ d.args[1].t = "object"

\* C2: for a one-arity operation, whatever the options bag (also one with
\* its own queryKey), the key useQuery(p, options) hands to the runtime is
\* queryKey(p) = [namespace, name, p].
C2_ReadKeyIsQueryKey ==
  \A o \in observers :
    OneArity(o.key) =>
      /\ o.handed.fields.queryKey = Triple(o.key, o.args[1])
      /\ o.handed.fields.queryKey = CallKeyFn(queries[o.key].queryKey, o.args[1])

C2_Witness ==
  \E o \in observers :
    /\ OneArity(o.key)
    /\ Len(o.args) = 2
    /\ "queryKey" \in DOMAIN o.args[2].fields
    /\ o.args[1].t = "object"

\* C3: for a zero-arity operation, the key useQuery(options) hands to the
\* runtime is [namespace, name, undefined] = queryKey(), with options absent
\* or present.
C3_ZeroArityKeyHasUndefined ==
  \A o \in observers :
    (IsPlainMapping(service) /\ ~OneArity(o.key)) => o.handed.fields.queryKey = Triple(o.key, Undef)

\* C4: for a zero-arity operation, running the execution function that
\* useQuery(options) produced calls the wrapped function with no parameter,
\* and the other entries of options reach the runtime unchanged.
C4_ZeroArityCallHasNoParameter ==
  \A i \in invocations :
    (/\ IsPlainMapping(service)
     /\ i.via = "query"
     /\ ~OneArity(i.reg.key)
     /\ i.reg.handed.fields.queryFn.f = "queryFn") =>
      /\ i.call.fn = WrappedFn(i.reg.key)
      /\ i.call.args = <<Undef>>
      /\ OthersForwarded(Arg(i.reg.args, 1), i.reg.handed, {"queryKey", "queryFn"})

\* C5: for a one-arity operation, running the execution function that
\* useQuery(parameter, options) produced calls the wrapped function with
\* exactly parameter as its only argument.
C5_OneArityCallHasParameter ==
  \A i \in invocations :
    (/\ i.via = "query"
     /\ OneArity(i.reg.key)
     /\ i.reg.handed.fields.queryFn.f = "queryFn") =>
      /\ i.call.fn = WrappedFn(i.reg.key)
      /\ i.call.args = <<i.reg.args[1]>>

C5_Witness ==
  \E i, j \in invocations :
    /\ i.via = "query" /\ OneArity(i.reg.key)
    /\ i.reg.handed.fields.queryFn.f = "queryFn"
    /\ i.reg.args[1] = Undef /\ Len(i.reg.args) = 2
    /\ i.reg.args[2] # Obj(NoFields)
    /\ j.via = "query" /\ OneArity(j.reg.key)
    /\ j.reg.handed.fields.queryFn.f = "queryFn"
    /\ j.reg.args[1].t = "object"

\* C6: whatever the options bag given to useQuery or useMutation (also one
\* with its own queryKey, queryFn or mutationFn), the key and the execution
\* function that reach the runtime are the ones this layer produced.
C6_ReservedOptionsOverwritten ==
  IsPlainMapping(service) =>
  /\ \A o \in observers :
       /\ o.handed.fields.queryKey =
            CallKeyFn(queries[o.key].queryKey, Arg(o.args, 1))
       /\ o.handed.fields.queryFn =
            QueryFnClosure(WrappedFn(o.key), Arg(o.args, 1))
  /\ \A m \in mutations : m.handed.fields.mutationFn = WrappedFn(m.key)

\* C7: every mutate(p) on the handle of useMutation(options) invokes the
\* wrapped function with exactly p, and every option other than the
\* execution function reaches the runtime unmodified.
C7_MutateCallsWrappedWithVariables ==
  \A i \in invocations :
    (IsPlainMapping(service) /\ i.via = "mutation") =>
      /\ i.call.fn = WrappedFn(i.reg.key)
      /\ i.call.args = <<i.variables>>
      /\ OthersForwarded(Arg(i.reg.args, 1), i.reg.handed, {"mutationFn"})

\* C8: useMutation attaches no key: the object it hands to the runtime has
\* mutationFn and otherwise only what the caller's options had, and none of
\* its entries is the key of a read.
C8_MutationHasNoDerivedKey ==
  \A m \in mutations :
    /\ \A name \in DOMAIN m.handed.fields \ {"mutationFn"} :
         /\ Arg(m.args, 1).t = "object"
         /\ name \in DOMAIN Arg(m.args, 1).fields
         /\ m.handed.fields[name] = Arg(m.args, 1).fields[name]
    /\ "queryKey" \notin DOMAIN m.handed.fields
    /\ \A name \in DOMAIN m.handed.fields :
         /\ \A o \in observers : m.handed.fields[name] # o.handed.fields.queryKey
         /\ \A p \in Params : m.handed.fields[name] # Triple(m.key, p)

C8_Witness ==
  \E m \in mutations : \E o \in observers : \E i, j \in invocations :
    /\ m.key = o.key
    /\ i.via = "mutation" /\ i.reg = m
    /\ j.via = "mutation" /\ j.reg = m
    /\ i.variables # j.variables

\* C9: the table returned for a service has exactly the function-valued
\* entries of the service as keys, each with a {useQuery, useMutation,
\* queryKey} triad, zero-arity when the declared parameter count is 0 and
\* one-arity when it is >= 1.
C9_TableIsFunctionEntries ==
  (pc = "returned" /\ service.t = "object") =>
    /\ DOMAIN queries =
         {k \in DOMAIN service.fields : service.fields[k].t = "function"}
    /\ \A k \in DOMAIN queries :
         /\ DOMAIN queries[k] = {"useQuery", "useMutation", "queryKey"}
         /\ queries[k].useQuery.f = "useQuery"
         /\ queries[k].useQuery.serviceFn = service.fields[k]
         /\ queries[k].useQuery.expectsParams = (service.fields[k].length >= 1)
         /\ queries[k].useMutation.f = "useMutation"
         /\ queries[k].useMutation.serviceFn = service.fields[k]
         /\ queries[k].queryKey = DefaultKeyFn(queryKeyPrefix, k)

C9_Witness ==
  /\ pc = "returned"
  /\ service.t = "object"
  /\ \E k \in DOMAIN service.fields : service.fields[k].t # "function"
  /\ \E k \in DOMAIN queries : ~queries[k].useQuery.expectsParams
  /\ \E k \in DOMAIN queries : queries[k].useQuery.expectsParams

\* C10: given a service that is not a plain mapping, createQueriesFromService
\* ends in an error and returns no table.
C10_MalformedServiceFails ==
  (pc # "start" /\ ~IsPlainMapping(service)) => pc = "threw"

\* C11: when the wrapped service function fails with error e in a run of the
\* execution function of useQuery or of the mutation function of useMutation,
\* the failure that reaches the runtime is exactly e, in the same way (a
\* rejection or a throw); it is never another error nor a success.
C11_FailurePassedUnchanged ==
  \A i \in invocations :
    (i.call.fn = WrappedFn(i.reg.key) /\ i.outcome.kind # "resolved") =>
      i.observed = i.outcome

C11_Witness ==
  \E i, j \in invocations :
    /\ i.via = "query" /\ i.call.fn = WrappedFn(i.reg.key)
    /\ i.outcome = Threw(Err("e2")) /\ i.observed = Threw(Err("e2"))
    /\ j.via = "mutation" /\ j.call.fn = WrappedFn(j.reg.key)
    /\ j.outcome = Rejected(Err("e1")) /\ j.observed = Rejected(Err("e1"))

\* C12: within one compiled service, queryKey of operation a applied to p
\* equals queryKey of operation b applied to q exactly when a = b and p = q.
C12_KeysEqualIffSameOperationAndParameter ==
  \A c, d \in keyCalls :
    (c.result = d.result) <=> (c.key = d.key /\ Arg(c.args, 1) = Arg(d.args, 1))

C12_Witness ==
  \E c, d \in keyCalls :
    /\ c.key # d.key
    /\ Arg(c.args, 1) = Arg(d.args, 1)
    /\ c.result # d.result

\* The parameter a read gives to its operation: the first argument of a
\* one-arity read; a zero-arity read has none.
ParameterOf(o) == IF OneArity(o.key) THEN Arg(o.args, 1) ELSE Undef

\* The execution of the read o has not completed.
InFlight(o) == \A i \in invocations : i.reg # o

\* C13: two useQuery calls on the same operation with identical parameters,
\* both in flight, hand the runtime identical keys.
C13_SameReadSameKey ==
  IsPlainMapping(service) =>
    \A o1, o2 \in observers :
      (/\ o1.key = o2.key
       /\ ParameterOf(o1) = ParameterOf(o2)
       /\ InFlight(o1) /\ InFlight(o2)) =>
        o1.handed.fields.queryKey = o2.handed.fields.queryKey

\* The parameter a read through an adapter gives to its operation.
AdapterParameter(o) == IF o.hook.expectsParams THEN Arg(o.args, 1) ELSE Undef

\* C14: an adapter made with a key function hands the runtime, on every
\* read, the value the key function returns for the operation's parameter,
\* whatever that value is and whatever queryKey the options contain.
C14_KeyFunctionTakesPrecedence ==
  \A o \in observers :
    IsFunction(o.hook.queryKey) =>
      o.handed.fields.queryKey = CallKeyFn(o.hook.queryKey, AdapterParameter(o))

\* C15: an adapter made without a key function hands the runtime the
\* queryKey of the second (options) argument, and [] when there is none: a
\* one-arity read uses the queryKey of its options, a zero-arity read always
\* has [], also when its single options argument contains a queryKey.
C15_NoKeyFunctionGivesEmptyKey ==
  \A o \in observers :
    ~IsFunction(o.hook.queryKey) =>
      o.handed.fields.queryKey =
        IF /\ o.hook.expectsParams
           /\ Len(o.args) = 2
           /\ "queryKey" \in DOMAIN o.args[2].fields
          THEN o.args[2].fields.queryKey
          ELSE Arr(<<>>)

C15_Witness ==
  \E o1, o2 \in observers :
    /\ ~IsFunction(o1.hook.queryKey) /\ ~IsFunction(o2.hook.queryKey)
    /\ ~o1.hook.expectsParams
    /\ Len(o1.args) = 1 /\ "queryKey" \in DOMAIN o1.args[1].fields
    /\ o2.hook.expectsParams
    /\ o1.hook.serviceFn # o2.hook.serviceFn
    /\ o1.handed.fields.queryKey = Arr(<<>>)
    /\ o2.handed.fields.queryKey = Arr(<<>>)

====
